---- MODULE Spec2Model ----
(***************************************************************************)
(* Map3D: the 3D choropleth map component (src/src/services/aiService.ts,  *)
(* lines 84-707) together with the props its pages hand to it.             *)
(*                                                                         *)
(* A "build" is one run of the big useEffect (lines 234-689): it creates a *)
(* scene, a map object graph, a raycaster, a pointer vector, a render loop,*)
(* three window listeners, a dat.GUI and possibly a delayed recolor.       *)
(* Builds are numbered 1, 2, ... in creation order.                         *)
(*                                                                         *)
(* Tracked state: the object graph, pointer vector and raycaster of the    *)
(* mounted build only. A replaced or unmounted build keeps its render loop *)
(* (loops) and its delayed recolor (timers), and lastPick may still refer  *)
(* to one of its meshes; what is written to the meshes of such a build is  *)
(* not recorded, since its canvas has left the page (lines 261-263).       *)
(*                                                                         *)
(* Specifications.  Spec: the component, its pages, the pointer and the   *)
(* configuration panel.  SpecView: the component in a window that is      *)
(* resized.  SpecLoad: the component with the model loader's callbacks.    *)
(* The panel, the resize handler and the loader callback write disjoint    *)
(* variables (colours; camera and renderer; models) and read none of each  *)
(* other's, so each is explored with the actions of MapNext alone.         *)
(* SpecFly: the random choice of the flight path endpoints of one build    *)
(* (lines 353-380).  SpecSpots: a pulsing marker's phase in the render     *)
(* loop (lines 529-538).  SpecColor: the two colour functions applied to   *)
(* the prices of one range (lines 152-177).  SpecRecolor: the map under    *)
(* selection changes from any selection.  SpecPage: a page's GeoJSON       *)
(* requests and the props they give the map (pages/MapPage.tsx 439-464).   *)
(* SpecPointer: the pointer vector of a mousemove (lines 438-441).         *)
(***************************************************************************)
EXTENDS Integers, Sequences, FiniteSets, TLC

\* ---------------------------------------------------------------- bounds
MaxBuilds == 2          \* builds (effect runs) explored
NumRegions == 2         \* features of every GeoJSON, adcodes 1..NumRegions
NumGeo == 2             \* distinct GeoJSON documents
MaxAnchors == 5         \* label anchors of a map in SpecFly
MaxPrice == 4           \* prices 0..MaxPrice in SpecColor
MaxRequests == 3        \* GeoJSON requests of a page in SpecPage
PointerGrid == 4        \* pointer positions per axis of the container
Grain == 4              \* Math.random() takes the values u / Grain, u < Grain

Regions == 1..NumRegions
GeoIds == 1..NumGeo
\* A pointer position: 0 is over no top face, r > 0 is over region r.
Positions == 0..NumRegions
Under(pos) == pos

NULL == 0 - 1           \* JavaScript null / undefined for a price
NoPick == <<>>

\* ------------------------------------------------------ time series input
Years == {"2020", "2021"}
Months == {"02", "03"}

\* province.data[year][key] as stored in housePriceData; NULL when absent.
\*  2020: only year averages, A = 100, B = 300, and a stored zero for A in
\*        month "03"; no other monthly value
\*  2021: "02" A = 100, B = 300, others missing; "03" A = 200 alone;
\*        average 100 * adcode for every region but A
RawValue(adcode, year, key) ==
    CASE year = "2020" /\ key = "average" /\ adcode = 1 -> 100
      [] year = "2020" /\ key = "average" /\ adcode = 2 -> 300
      [] year = "2021" /\ key = "02" /\ adcode = 1 -> 100
      [] year = "2021" /\ key = "02" /\ adcode = 2 -> 300
      [] year = "2021" /\ key = "03" /\ adcode = 1 -> 200
      [] year = "2021" /\ key = "average" /\ adcode > 1 -> 100 * adcode
      [] year = "2020" /\ key = "03" /\ adcode = 1 -> 0
      [] OTHER -> NULL

\* Props currentYear / currentMonth / showHeatmap of one render.
Selections == [year : Years, month : Months, heat : BOOLEAN]
NoSelection == [year |-> "", month |-> "", heat |-> FALSE]
DefaultSelection == [year |-> "2020", month |-> "02", heat |-> FALSE]

\* ---------------------------------------------------------------- colours
NoDataColor == "#06092A"
Bucket1 == "#132354"
Bucket2 == "#0B388A"
Bucket3 == "#1E6BF8"
Bucket4 == "#42A0F9"
NaNColor == "#NaN"      \* hex string of a colour whose HSL components are NaN
\* values the configuration panel can give mapColor / mapHoverColor
GuiColors == {"#06092A", "#409EFF"}
MapOpacity == "mapOpacity"      \* mapConfig.mapOpacity
FullOpacity == "1"
NoColor == ""           \* userData.priceColor not set

\* getPriceByTime: `|| null` turns a missing value and a stored 0 into null.
getPriceByTime(hasData, adcode, year, month) ==
    IF ~hasData THEN NULL
    ELSE IF year \notin Years THEN NULL
    ELSE LET v == RawValue(adcode, year, month)
         IN IF v = NULL \/ v = 0 THEN NULL ELSE v

getYearAveragePrice(hasData, adcode, year) ==
    IF ~hasData THEN NULL
    ELSE IF year \notin Years THEN NULL
    ELSE LET v == RawValue(adcode, year, "average")
         IN IF v = NULL \/ v = 0 THEN NULL ELSE v

\* Variant: the hue rising from 0 to 240.
HeatHSL_rising(price, maxPrice, minPrice) ==
    LET r == ((price - minPrice) * 1000) \div (maxPrice - minPrice)
    IN <<(240 * r) \div 1000, 800 + (r * 200) \div 1000,
         350 + (r * 200) \div 1000>>

\* Lines 154-162 for maxPrice # minPrice: <<hue in degrees, saturation,
\* lightness in thousandths>> of a price, ratio in thousandths.
HeatHSL(price, maxPrice, minPrice) ==
    LET r == ((price - minPrice) * 1000) \div (maxPrice - minPrice)
    IN <<(240 * (1000 - r)) \div 1000, 800 + (r * 200) \div 1000,
         350 + (r * 200) \div 1000>>

\* getHeatmapColor: hue 240 -> 0, saturation .8 -> 1, lightness .35 -> .55,
\* in thousandths of the normalized position; 0/0 is NaN.
getHeatmapColor(price, maxPrice, minPrice) ==
    IF price = NULL THEN NoDataColor
    ELSE IF maxPrice = minPrice THEN NaNColor
    ELSE LET hsl == HeatHSL(price, maxPrice, minPrice)
         IN "hsl(" \o ToString(hsl[1]) \o "," \o ToString(hsl[2]) \o ","
                   \o ToString(hsl[3]) \o ")"

\* Variant: the range arguments taken in the order (min, max).
getPriceColor_swapped(price, maxPrice, minPrice) ==
    IF price = NULL THEN NoDataColor
    ELSE IF maxPrice = minPrice THEN Bucket4
    ELSE LET n == maxPrice - price
             d == maxPrice - minPrice
         IN IF 4 * n < d THEN Bucket1
            ELSE IF 2 * n < d THEN Bucket2
            ELSE IF 4 * n < 3 * d THEN Bucket3
            ELSE Bucket4

\* Variant: no null guard; null - min is a number below zero in JavaScript.
getPriceColor_noguard(price, maxPrice, minPrice) ==
    IF price = NULL THEN Bucket1
    ELSE IF maxPrice = minPrice THEN Bucket4
    ELSE LET n == price - minPrice
             d == maxPrice - minPrice
         IN IF 4 * n < d THEN Bucket1
            ELSE IF 2 * n < d THEN Bucket2
            ELSE IF 4 * n < 3 * d THEN Bucket3
            ELSE Bucket4

\* getPriceColor: four buckets; with a NaN ratio every comparison is false.
getPriceColor(price, maxPrice, minPrice) ==
    IF price = NULL THEN NoDataColor
    ELSE IF maxPrice = minPrice THEN Bucket4
    ELSE LET n == price - minPrice
             d == maxPrice - minPrice
         IN IF 4 * n < d THEN Bucket1
            ELSE IF 2 * n < d THEN Bucket2
            ELSE IF 4 * n < 3 * d THEN Bucket3
            ELSE Bucket4


\* --------------------------------------------------------------- viewport
\* currentDom.clientWidth / clientHeight: the sizes the container takes.
Viewports == {<<800, 600>>, <<1600, 300>>}

Min2(a, b) == IF a <= b THEN a ELSE b

\* Width and height of the bounding box of the built map (before scaling).
BoxOf(g) == <<100, 100 * g>>

\* getDynamicMapScale(mapObject3D, currentDom), in tenths: the largest scale
\* at which the bounding box fits the container with a margin of a tenth.
getDynamicMapScale(g, vp) ==
    Min2((vp[1] * 9) \div BoxOf(g)[1], (vp[2] * 9) \div BoxOf(g)[2])

\* Variant: the aspect taken as height over width.
Aspect_inverted(vp) == (vp[2] * 1000) \div vp[1]

\* Line 421: camera.aspect, in thousandths.
Aspect(vp) == (vp[1] * 1000) \div vp[2]

\* label2dData.length: one label anchor per feature of the GeoJSON.
Anchors(g) == NumRegions

\* Variant: one model for the whole map.
LoadedModels_one(n) == 1

\* Lines 320-345: the models (and mixers) a completed load adds, one per
\* label anchor.
LoadedModels(n) == n

\* ------------------------------------------------------------------ state
VARIABLES
    nBuilds,      \* builds made so far
    mounted,      \* a Map3D instance is mounted; its build is number nBuilds
    props,        \* what the mounted build's closures captured
    meshColor,    \* mounted map, per region: top face material[0].color
    meshOpacity,  \* mounted map, per region: top face material[0].opacity
    priceColor,   \* mounted map, per region: userData.priceColor
    pointer,      \* mounted build: the pointer vector of its closures
    ray,          \* mounted build: position its raycaster was last set from
    lastPick,     \* module-level lastPick: <<build, region>> or NoPick
    loops,        \* builds whose animate() keeps rescheduling itself
    timers,       \* delayed recolors not run yet, oldest first
    resizeL,      \* builds whose resize handler is registered on window
    moveL,        \* builds whose mousemove handler is registered on window
    dblL,         \* builds whose dblclick handler is registered on window
    mapColor,     \* mapConfig.mapColor
    hoverColor,   \* mapConfig.mapHoverColor
    mouse,        \* where the user's pointer really is
    tipVisible,   \* tooltip style.visibility = "visible"
    tipText,      \* toolTipData.text as <<name, price text>>
    ev,           \* the last operation and what it saw (observation only)
    viewport,     \* the container's client size <<width, height>>
    mapScale,     \* mounted map: the scale its transition leads to (tenths)
    cameraAspect, \* mounted build: camera.aspect (thousandths)
    rendererSize, \* mounted build: size given to renderer and labelRenderer
    loading,      \* pending model loads: <<build, its label2dData.length>>
    models,       \* mounted map: model instances (= mixers of its build)
    anchors,      \* SpecFly: label2dData.length
    stage,        \* SpecFly: "lines" in the loop of 354-363, then "running"
                  \* (loop and listeners set up) or "thrown"
    connectLine,  \* SpecFly: the {indexStart, indexEnd} pairs pushed so far
    spotS,        \* SpecSpots: mesh._s of a marker, in hundredths
    spotScale,    \* SpecSpots: mesh.scale of the marker, in hundredths
    spotOpacity,  \* SpecSpots: mesh.material.opacity, in hundredths
    shade,        \* SpecColor: the colour functions applied within one range
    mapAdCode,    \* SpecPage: the adcode of the route, a GeoJSON id
    nRequests,    \* SpecPage: axios.get calls made so far
    requests,     \* SpecPage: calls in flight, <<number, adcode>>
    geoJson,      \* SpecPage: the page's geoJson state, by adcode; 0 unset
    projectionFnParam,  \* SpecPage: the adcode whose response gave the
                  \* page's projection parameters; 0 for the default ones
    built,        \* SpecPage: the geoJson and projectionFnParam props of the
                  \* render whose build effect made the displayed map
    ndc           \* SpecPointer: the container's box in the window, the last
                  \* mousemove's clientX / clientY and the pointer vector
                  \* made of them, in thousandths

\* The variables of each part.
mapVars == <<nBuilds, mounted, props, meshColor, meshOpacity, priceColor,
             pointer, ray, lastPick, loops, timers, resizeL, moveL, dblL,
             mapColor, hoverColor, mouse, tipVisible, tipText, ev>>
viewVars == <<viewport, mapScale, cameraAspect, rendererSize>>
loadVars == <<loading, models>>
flyVars == <<anchors, connectLine, stage>>
spotVars == <<spotS, spotScale, spotOpacity>>

pageVars == <<mapAdCode, nRequests, requests, geoJson, projectionFnParam,
              built>>
auxVars == <<shade, pageVars, ndc>>

vars == <<mapVars, viewVars, loadVars, flyVars, spotVars, auxVars>>

\* The mounted build, 0 if none.
cur == IF mounted THEN nBuilds ELSE 0

NoProps == [inst |-> 0, geo |-> 0, sel |-> NoSelection, data |-> FALSE]
NoTable == [r \in Regions |-> NoColor]

\* What lies at the centre of the viewport, where a fresh pointer vector
\* (0, 0) points: a region for GeoJSON 1, nothing for the others.
CenterPos(g) == IF g = 1 THEN 1 ELSE 0

\* mapObject3DRef.current as a closure of component instance i finds it:
\* the mounted build if i is the mounted instance, else a map that has been
\* replaced together with its instance (written 0: not tracked).
RefOf(i) == IF mounted /\ props.inst = i THEN cur ELSE 0

\* ------------------------------------------------------- updateMapColors
\* The value a pass reads for one region.
PriceOf(s, d, adcode) ==
    IF s.heat THEN getYearAveragePrice(d, adcode, s.year)
    ELSE getPriceByTime(d, adcode, s.year, s.month)

\* Variant: every region's lookup is pushed, null included.
PassPrices_withNull(s, d) == {PriceOf(s, d, r) : r \in Regions}

\* The prices array of a pass (first traverse).
PassPrices(s, d) == {PriceOf(s, d, r) : r \in Regions} \ {NULL}

SetMax(S) == CHOOSE x \in S : \A y \in S : y <= x
SetMin(S) == CHOOSE x \in S : \A y \in S : x <= y

\* Both early returns and the empty-prices return (lines 180, 181, 205).
PassRuns(s, d, hasMap) ==
    /\ hasMap
    /\ s.year # ""
    /\ d
    /\ (s.heat \/ s.month # "")
    /\ PassPrices(s, d) # {}

\* Lines 207-208: <<minPrice, maxPrice>> of a pass that reaches them.
PassRange(s, d, hasMap) ==
    IF PassRuns(s, d, hasMap)
    THEN <<SetMin(PassPrices(s, d)), SetMax(PassPrices(s, d))>>
    ELSE <<>>

\* The colour the second traverse gives a region.
PassColor(s, d, adcode) ==
    LET price == PriceOf(s, d, adcode)
        range == PassRange(s, d, TRUE)
    IN IF s.heat THEN getHeatmapColor(price, range[2], range[1])
       ELSE getPriceColor(price, range[2], range[1])

\* A per-region table of the mounted map after updateMapColors ran with
\* selection s on the map the ref holds: used for material[0].color and for
\* userData.priceColor alike.
updateMapColors(table, s, d, hasMap) ==
    IF PassRuns(s, d, hasMap)
    THEN [r \in Regions |-> PassColor(s, d, r)]
    ELSE table

\* --------------------------------------------------- pointer-move helpers
\* Variant: the hover ends with the configured base colour, whatever was
\* recorded.
RestoreColor_base(recorded, base) == base

\* Lines 443-447: the colour a mesh gets when its hover ends.
RestoreColor(recorded, base) == IF recorded # NoColor THEN recorded ELSE base

\* Variant: the previous pick is not restored.
RestoreMesh_skipped(table, pick, v) == table

\* Lines 443-447: write value v to the mesh lastPick refers to, if any; a
\* mesh of an earlier build is outside the table.
RestoreMesh(table, pick, v) ==
    IF pick = NoPick \/ pick[1] # cur THEN table
    ELSE [table EXCEPT ![pick[2]] = v]

\* Variant: every top face is given the value.
HighlightMesh_all(table, hit, v) ==
    IF hit = 0 THEN table ELSE [r \in Regions |-> v]

\* Lines 457-462: write value v to the new pick, if any.
HighlightMesh(table, hit, v) ==
    IF hit = 0 THEN table ELSE [table EXCEPT ![hit] = v]

\* Lines 439 and 453-455: the pick uses the ray as the raycaster holds it
\* when the handler starts; the event's position reaches the raycaster only
\* in a later frame (line 525).
PickedRegion(rayPos, eventPos) == Under(rayPos)

\* Variant: the month value whatever the mode.
PriceText_month(s, d, adcode) ==
    LET price == getPriceByTime(d, adcode, s.year, s.month)
    IN IF price = NULL THEN "no data" ELSE ToString(price) \o ".00"

\* Lines 470-478: the price line of the tooltip; toFixed(2) of an integer.
PriceText(s, d, adcode) ==
    LET price == PriceOf(s, d, adcode)
    IN IF price = NULL THEN "no data"
       ELSE IF s.heat THEN ToString(price) \o ".00 (" \o s.year \o " average)"
       ELSE ToString(price) \o ".00"

\* Variant: a cleanup that removes nothing.
Cleanup_none(listeners, b) == listeners

\* Lines 683-688: the listeners a cleanup leaves registered.
Cleanup(listeners, b) == listeners \ {b}

\* The observation record of an operation: prev is lastPick before a
\* pointer-move and shown the colour that mesh displayed then; sel, data,
\* map describe a delayed recolor (map = 0: it ran
\* on no map or on a replaced one) and range its <<minPrice, maxPrice>>;
\* out holds the dblClickFn calls of a double-click; for a load callback
\* map is the mounted map if the load was its own (0 otherwise) and added
\* the models the callback added; casts counts the intersectObjects calls
\* of a pointer handler.
Plain(op) ==
    [op |-> op, prev |-> NoPick, shown |-> NoColor, sel |-> NoSelection, data |-> FALSE,
     map |-> 0, out |-> <<>>, range |-> <<>>, added |-> 0, casts |-> 0]

\* ------------------------------------------------------------------- Init
\* Nothing is mounted. mapConfig (imported at line 104) starts with the base
\* colour equal to the no-data colour; the panel can change both colours.
InitMap ==
    /\ nBuilds = 0
    /\ mounted = FALSE
    /\ props = NoProps
    /\ meshColor = NoTable
    /\ meshOpacity = NoTable
    /\ priceColor = NoTable
    /\ pointer = 0
    /\ ray = 0
    /\ lastPick = NoPick
    /\ loops = {}
    /\ timers = <<>>
    /\ resizeL = {}
    /\ moveL = {}
    /\ dblL = {}
    /\ mapColor = "#06092A"
    /\ hoverColor = "#409EFF"
    /\ mouse = 0
    /\ tipVisible = FALSE
    /\ tipText = <<>>
    /\ ev = Plain("init")
    /\ viewport = <<800, 600>>
    /\ mapScale = 0
    /\ cameraAspect = 0
    /\ rendererSize = <<0, 0>>
    /\ loading = {}
    /\ models = 0

\* No flight path construction is being followed.
FlyIdle == anchors = 0 /\ connectLine = <<>> /\ stage = "idle"

\* A marker at the start of its cycle.
SpotIdle == spotS = 100 /\ spotScale = 100 /\ spotOpacity = 100

\* No colour has been asked for.
NoShade == [price |-> NULL, discrete |-> NoColor, heat |-> NoColor,
            hsl |-> <<>>]
ShadeIdle == shade = [min |-> 0, max |-> 0, now |-> NoShade, last |-> NoShade]

\* No page is followed.
NoMap == [geo |-> 0, proj |-> 0]
PageIdle ==
    /\ mapAdCode = 0
    /\ nRequests = 0
    /\ requests = {}
    /\ geoJson = 0
    /\ projectionFnParam = 0
    /\ built = NoMap

\* No pointer vector is followed.
NoBox == [left |-> 0, top |-> 0, width |-> 0, height |-> 0]
PointerIdle == ndc = [box |-> NoBox, clientX |-> 0, clientY |-> 0,
                      x |-> 0, y |-> 0]

Init == InitMap /\ FlyIdle /\ SpotIdle /\ ShadeIdle /\ PageIdle /\ PointerIdle

\* ---------------------------------------------------------- build effect
\* Lines 234-689 after the cleanup of the build it replaces: one run of the
\* effect for instance i with props (geoJson g, selection s, housePriceData
\* present d).
BuildEffect(i, g, s, d) ==
    LET n == nBuilds + 1
    IN /\ nBuilds' = n
       /\ mounted' = TRUE
       /\ props' = [inst |-> i, geo |-> g, sel |-> s, data |-> d]
       /\ meshColor' = [r \in Regions |-> mapColor]
       /\ meshOpacity' = [r \in Regions |-> MapOpacity]
       /\ priceColor' = NoTable
       /\ pointer' = CenterPos(g)
       /\ ray' = CenterPos(g)
       /\ loops' = loops \cup {n}
       /\ resizeL' = Cleanup(resizeL, cur) \cup {n}
       /\ moveL' = Cleanup(moveL, cur) \cup {n}
       /\ dblL' = Cleanup(dblL, cur) \cup {n}
       /\ timers' = IF s.year # "" /\ d
                    THEN Append(timers, [inst |-> i, sel |-> s, data |-> d])
                    ELSE timers
       /\ mapScale' = getDynamicMapScale(g, viewport)
       /\ cameraAspect' = Aspect(viewport)
       /\ rendererSize' = viewport
       /\ loading' = loading \cup {<<n, Anchors(g)>>}
       /\ models' = 0
       /\ UNCHANGED <<viewport, flyVars, spotVars, auxVars>>

\* A page mounts Map3D: MainPage with the price data and its initial
\* selection, MapPage without either. The effect of lines 230-232 finds the
\* ref empty.
Mount(g, withData) ==
    /\ ~mounted
    /\ nBuilds < MaxBuilds
    /\ BuildEffect(nBuilds + 1, g,
                   IF withData THEN DefaultSelection ELSE NoSelection, withData)
    /\ tipVisible' = FALSE
    /\ tipText' = <<>>
    /\ ev' = Plain("mount")
    /\ UNCHANGED <<lastPick, mapColor, hoverColor, mouse>>

\* The page unmounts Map3D: only the cleanup runs.
Unmount ==
    /\ mounted
    /\ mounted' = FALSE
    /\ props' = NoProps
    /\ meshColor' = NoTable
    /\ meshOpacity' = NoTable
    /\ priceColor' = NoTable
    /\ pointer' = 0
    /\ ray' = 0
    /\ resizeL' = Cleanup(resizeL, cur)
    /\ moveL' = Cleanup(moveL, cur)
    /\ dblL' = Cleanup(dblL, cur)
    /\ tipVisible' = FALSE
    /\ tipText' = <<>>
    /\ ev' = Plain("unmount")
    /\ mapScale' = 0
    /\ cameraAspect' = 0
    /\ rendererSize' = <<0, 0>>
    /\ models' = 0
    /\ UNCHANGED <<nBuilds, lastPick, loops, timers, mapColor, hoverColor,
                   mouse, viewport, loading, flyVars, spotVars, auxVars>>

\* The geoJson prop changes: cleanup, then the build effect; updateMapColors
\* keeps its identity, so the effect of lines 230-232 does not run.
GeoChange(g) ==
    /\ mounted
    /\ nBuilds < MaxBuilds
    /\ g # props.geo
    /\ BuildEffect(props.inst, g, props.sel, props.data)
    /\ ev' = Plain("geo")
    /\ UNCHANGED <<lastPick, mapColor, hoverColor, mouse, tipVisible, tipText>>

\* One step of the time axis (year and month together) or the heatmap
\* toggle.
TimeSteps(s) ==
    {s2 \in Selections :
        \/ s2.heat = s.heat /\ <<s2.year, s2.month>> # <<s.year, s.month>>
        \/ s2.heat # s.heat /\ s2.year = s.year /\ s2.month = s.month}

\* currentYear / currentMonth / showHeatmap change: cleanup of the build
\* effect, then the effect of lines 230-232 (a pass on the map the ref still
\* holds, which the next effect replaces), then the build effect, whose
\* dependency list (line 689) names the selection.
TimeChange(s) ==
    /\ mounted
    /\ nBuilds < MaxBuilds
    /\ props.data
    /\ s \in TimeSteps(props.sel)
    /\ BuildEffect(props.inst, props.geo, s, TRUE)
    /\ ev' = [Plain("time") EXCEPT !.sel = s, !.data = TRUE]
    /\ UNCHANGED <<lastPick, mapColor, hoverColor, mouse, tipVisible, tipText>>

\* Lines 677-681: the oldest delayed recolor runs (timers of equal delay run
\* in the order they were set). The callback is the updateMapColors of the
\* render that set it; the ref is read when it runs.
TimerFire ==
    /\ timers # <<>>
    /\ LET t == Head(timers)
           m == RefOf(t.inst)
       IN /\ meshColor' = updateMapColors(meshColor, t.sel, t.data, m # 0)
          /\ priceColor' = updateMapColors(priceColor, t.sel, t.data, m # 0)
          /\ ev' = [Plain("timer") EXCEPT
                      !.sel = t.sel, !.data = t.data, !.map = m,
                      !.range = PassRange(t.sel, t.data, m # 0)]
    /\ timers' = Tail(timers)
    /\ UNCHANGED <<nBuilds, mounted, props, meshOpacity, pointer, ray,
                   lastPick, loops, resizeL, moveL, dblL, mapColor,
                   hoverColor, mouse, tipVisible, tipText>>
    /\ UNCHANGED <<viewVars, loadVars, flyVars, spotVars, auxVars>>

\* -------------------------------------------------------- pointer events
\* Lines 438-485: the mousemove handler of the mounted build, for an event
\* at position p.
onMouseMoveEvent(p) ==
    /\ cur \in moveL
    /\ LET hit == PickedRegion(ray, p)
           restoredColor ==
               RestoreMesh(meshColor, lastPick,
                   IF lastPick = NoPick \/ lastPick[1] # cur THEN NoColor
                   ELSE RestoreColor(priceColor[lastPick[2]], mapColor))
           restoredOpacity == RestoreMesh(meshOpacity, lastPick, MapOpacity)
       IN /\ pointer' = p
          /\ lastPick' = IF hit # 0 THEN <<cur, hit>> ELSE NoPick
          /\ meshColor' = HighlightMesh(restoredColor, hit, hoverColor)
          /\ meshOpacity' = HighlightMesh(restoredOpacity, hit, FullOpacity)
          /\ tipVisible' = (hit # 0)
          /\ tipText' = IF hit # 0
                        THEN <<hit, PriceText(props.sel, props.data, hit)>>
                        ELSE tipText
          /\ ev' = [Plain("move") EXCEPT
                      !.casts = 1,
                      !.prev = lastPick,
                      !.shown = IF lastPick = NoPick \/ lastPick[1] # cur
                                THEN NoColor ELSE meshColor[lastPick[2]]]
    /\ mouse' = p
    /\ UNCHANGED <<nBuilds, mounted, props, priceColor, ray, loops, timers,
                   resizeL, moveL, dblL, mapColor, hoverColor>>
    /\ UNCHANGED <<viewVars, loadVars, flyVars, spotVars, auxVars>>

\* Lines 488-498: the dblclick handler of the mounted build; the event
\* happens where the pointer is.
onDblclickEvent ==
    /\ cur \in dblL
    /\ LET target == PickedRegion(ray, mouse)
       IN ev' = [Plain("dblclick") EXCEPT
                   !.casts = 1,
                   !.out = IF target # 0 THEN <<[adcode |-> target]>> ELSE <<>>]
    /\ UNCHANGED <<nBuilds, mounted, props, meshColor, meshOpacity,
                   priceColor, pointer, ray, lastPick, loops, timers, resizeL,
                   moveL, dblL, mapColor, hoverColor, mouse, tipVisible,
                   tipText>>
    /\ UNCHANGED <<viewVars, loadVars, flyVars, spotVars, auxVars>>

\* Lines 510-548: one frame of the loop build b started; the loop of a
\* replaced or unmounted build keeps running on its own raycaster.
animate(b) ==
    /\ b \in loops
    /\ ray' = IF b = cur THEN pointer ELSE ray
    /\ ev' = Plain("frame")
    /\ UNCHANGED <<nBuilds, mounted, props, meshColor, meshOpacity,
                   priceColor, pointer, lastPick, loops, timers, resizeL,
                   moveL, dblL, mapColor, hoverColor, mouse, tipVisible,
                   tipText>>
    /\ UNCHANGED <<viewVars, loadVars, flyVars, spotVars, auxVars>>

\* ----------------------------------------------------------------- resize
\* The container takes the size vp and the window fires resize: lines
\* 419-429 run for the build whose handler is registered.
onResizeEvent(vp) ==
    /\ vp # viewport
    /\ viewport' = vp
    /\ cameraAspect' = IF cur \in resizeL THEN Aspect(vp) ELSE cameraAspect
    /\ rendererSize' = IF cur \in resizeL THEN vp ELSE rendererSize
    /\ ev' = Plain("resize")
    /\ UNCHANGED <<nBuilds, mounted, props, meshColor, meshOpacity,
                   priceColor, pointer, ray, lastPick, loops, timers, resizeL,
                   moveL, dblL, mapColor, hoverColor, mouse, tipVisible,
                   tipText>>
    /\ UNCHANGED <<mapScale, loadVars, flyVars, spotVars, auxVars>>

\* ----------------------------------------------------------- model loader
\* Lines 319-348: the load started by build l[1] completes; its callback
\* adds one model and one mixer per label anchor to that build's map and
\* mixer list, whether or not the build is still the mounted one.
LoadDone(l) ==
    /\ l \in loading
    /\ loading' = loading \ {l}
    /\ models' = IF l[1] = cur THEN models + LoadedModels(l[2]) ELSE models
    /\ ev' = [Plain("loaded") EXCEPT !.map = IF l[1] = cur THEN cur ELSE 0,
                                     !.added = LoadedModels(l[2])]
    /\ UNCHANGED <<nBuilds, mounted, props, meshColor, meshOpacity,
                   priceColor, pointer, ray, lastPick, loops, timers, resizeL,
                   moveL, dblL, mapColor, hoverColor, mouse, tipVisible,
                   tipText>>
    /\ UNCHANGED <<viewVars, flyVars, spotVars, auxVars>>

\* The load fails: loader.load was given no error callback, nothing runs.
LoadFail(l) ==
    /\ l \in loading
    /\ loading' = loading \ {l}
    /\ ev' = [Plain("loadfail") EXCEPT
                !.map = IF l[1] = cur THEN cur ELSE 0]
    /\ UNCHANGED <<nBuilds, mounted, props, meshColor, meshOpacity,
                   priceColor, pointer, ray, lastPick, loops, timers, resizeL,
                   moveL, dblL, mapColor, hoverColor, mouse, tipVisible,
                   tipText>>
    /\ UNCHANGED <<viewVars, models, flyVars, spotVars, auxVars>>

\* ---------------------------------------------------- configuration panel
\* Lines 568-579: the base colour control of the mounted build's panel.
GuiMapColor(value) ==
    /\ mounted
    /\ value # mapColor
    /\ mapColor' = value
    /\ meshColor' = [r \in Regions |-> value]
    /\ ev' = Plain("gui")
    /\ UNCHANGED <<nBuilds, mounted, props, meshOpacity, priceColor, pointer,
                   ray, lastPick, loops, timers, resizeL, moveL, dblL,
                   hoverColor, mouse, tipVisible, tipText>>
    /\ UNCHANGED <<viewVars, loadVars, flyVars, spotVars, auxVars>>

\* Lines 580-585: the hover colour control.
GuiHoverColor(value) ==
    /\ mounted
    /\ value # hoverColor
    /\ hoverColor' = value
    /\ ev' = Plain("gui")
    /\ UNCHANGED <<nBuilds, mounted, props, meshColor, meshOpacity,
                   priceColor, pointer, ray, lastPick, loops, timers, resizeL,
                   moveL, dblL, mapColor, mouse, tipVisible, tipText>>
    /\ UNCHANGED <<viewVars, loadVars, flyVars, spotVars, auxVars>>

\* ---------------------------------------------------------- flight paths
MAX_LINE_COUNT == 5

\* Math.floor(Math.random() * k) for the draw u / Grain.
RandomBelow(u, k) == (u * k) \div Grain

\* Line 358.
IndexEnd(u, midIndex) == RandomBelow(u, midIndex) + midIndex - 1

\* Lines 355-363: one turn of the loop, with the draws u1 / Grain and
\* u2 / Grain of Math.random().
PushConnectLine(u1, u2) ==
    /\ Len(connectLine) < MAX_LINE_COUNT
    /\ LET midIndex == anchors \div 2
           indexStart == RandomBelow(u1, midIndex)
           indexEnd == IndexEnd(u2, midIndex)
       IN connectLine' = Append(connectLine,
                                [indexStart |-> indexStart,
                                 indexEnd |-> indexEnd])
    /\ UNCHANGED <<mapVars, viewVars, loadVars, anchors, stage, spotVars,
                   auxVars>>

\* Lines 373-374: label2dData[indexStart].featureCenterCoord and
\* label2dData[indexEnd].featureCenterCoord are read without a throw iff
\* both elements exist, label2dData having n elements.
Dereference(line, n) ==
    /\ line.indexStart \in 0..(n - 1)
    /\ line.indexEnd \in 0..(n - 1)

\* Lines 370-380 and on to 549-553: the flight paths are drawn from the
\* anchors the indexes name; a read of a property of undefined throws out
\* of the effect, which then sets up neither the render loop nor the
\* listeners.
DrawFlightPaths ==
    /\ stage = "lines"
    /\ Len(connectLine) = MAX_LINE_COUNT
    /\ stage' = IF \A i \in DOMAIN connectLine :
                       Dereference(connectLine[i], anchors)
                THEN "running"
                ELSE "thrown"
    /\ UNCHANGED <<mapVars, viewVars, loadVars, anchors, connectLine,
                   spotVars, auxVars>>

\* A build whose GeoJSON gave up to MaxAnchors label anchors reaches line
\* 353.
InitFly ==
    /\ InitMap
    /\ anchors \in 0..MaxAnchors
    /\ connectLine = <<>>
    /\ stage = "lines"
    /\ SpotIdle
    /\ ShadeIdle
    /\ PageIdle
    /\ PointerIdle

NextFly ==
    \/ \E u1 \in 0..(Grain - 1), u2 \in 0..(Grain - 1) :
          PushConnectLine(u1, u2)
    \/ DrawFlightPaths

SpecFly == InitFly /\ [][NextFly]_vars

\* -------------------------------------------------------- pulsing markers
\* Lines 530-538 for one marker, in hundredths: one frame.
animateSpot ==
    /\ spotScale' = spotS + 1
    /\ IF spotS + 1 <= 200
       THEN spotOpacity' = 200 - (spotS + 1) /\ spotS' = spotS + 1
       ELSE spotOpacity' = spotOpacity /\ spotS' = 100
    /\ UNCHANGED <<mapVars, viewVars, loadVars, flyVars, auxVars>>

\* A marker whose phase is anywhere in [1, 2], drawn as that phase asks.
InitSpots ==
    /\ InitMap
    /\ FlyIdle
    /\ spotS \in 100..200
    /\ spotScale = spotS
    /\ spotOpacity = 200 - spotS
    /\ ShadeIdle
    /\ PageIdle
    /\ PointerIdle

NextSpots == animateSpot

SpecSpots == InitSpots /\ [][NextSpots]_vars

\* -------------------------------------------------------- colour functions
\* Lines 221-223 for one region: both colour functions applied to a price
\* of the range [shade.min, shade.max] (or to null); last keeps the
\* application before this one.
Colorize(price) ==
    /\ shade' = [shade EXCEPT
          !.now = [price |-> price,
                   discrete |-> getPriceColor(price, shade.max, shade.min),
                   heat |-> getHeatmapColor(price, shade.max, shade.min),
                   hsl |-> IF price = NULL \/ shade.max = shade.min
                           THEN <<>>
                           ELSE HeatHSL(price, shade.max, shade.min)],
          !.last = shade.now]
    /\ UNCHANGED <<mapVars, viewVars, loadVars, flyVars, spotVars, pageVars, ndc>>

\* A pass found the minimum and the maximum over prices 0..MaxPrice.
InitColor ==
    /\ InitMap
    /\ FlyIdle
    /\ SpotIdle
    /\ \E mn \in 0..MaxPrice, mx \in 0..MaxPrice :
          /\ mn <= mx
          /\ shade = [min |-> mn, max |-> mx, now |-> NoShade,
                      last |-> NoShade]
    /\ PageIdle
    /\ PointerIdle

NextColor == \E price \in (shade.min .. shade.max) \cup {NULL} :
                 Colorize(price)

SpecColor == InitColor /\ [][NextColor]_vars

\* ------------------------------------------------------------------ page
\* MapPage.tsx lines 462-464 on a new route parameter (MainPage.tsx lines
\* 76-78): the effect calls queryMapData, whose axios.get is neither
\* cancelled nor awaited by anything.
Navigate(code) ==
    /\ code # mapAdCode
    /\ nRequests < MaxRequests
    /\ mapAdCode' = code
    /\ nRequests' = nRequests + 1
    /\ requests' = requests \cup {<<nRequests + 1, code>>}
    /\ UNCHANGED <<geoJson, projectionFnParam, built>>
    /\ UNCHANGED <<mapVars, viewVars, loadVars, flyVars, spotVars, shade, ndc>>

\* MapPage.tsx lines 443-459 (MainPage.tsx lines 57-73), the continuation
\* of queryMapData for request q: setGeoJson, then setProjectionFnParam if
\* the target feature has a centroid. Batched, one render carries both to
\* Map3D; unbatched, the render after setGeoJson runs the build effect
\* (aiService.ts lines 282-285) with the parameters of before, and the
\* render after setProjectionFnParam does not run it again (line 689).
Respond(q, centroid, batched) ==
    /\ q \in requests
    /\ requests' = requests \ {q}
    /\ geoJson' = q[2]
    /\ projectionFnParam' = IF centroid THEN q[2] ELSE projectionFnParam
    /\ built' = [geo |-> q[2],
                 proj |-> IF batched THEN projectionFnParam'
                          ELSE projectionFnParam]
    /\ UNCHANGED <<mapAdCode, nRequests>>
    /\ UNCHANGED <<mapVars, viewVars, loadVars, flyVars, spotVars, shade, ndc>>

\* axios.get rejects: queryMapData ends at line 440 with nothing set.
RequestFail(q) ==
    /\ q \in requests
    /\ requests' = requests \ {q}
    /\ UNCHANGED <<mapAdCode, nRequests, geoJson, projectionFnParam, built>>
    /\ UNCHANGED <<mapVars, viewVars, loadVars, flyVars, spotVars, shade, ndc>>

\* The page mounted on the route of an adcode: its first request is in
\* flight, geoJson is unset and the projection parameters are the default.
InitPage ==
    /\ InitMap
    /\ FlyIdle
    /\ SpotIdle
    /\ ShadeIdle
    /\ mapAdCode \in GeoIds
    /\ nRequests = 1
    /\ requests = {<<1, mapAdCode>>}
    /\ geoJson = 0
    /\ projectionFnParam = 0
    /\ built = NoMap
    /\ PointerIdle

NextPage ==
    \/ \E code \in GeoIds : Navigate(code)
    \/ \E q \in requests, centroid \in BOOLEAN, batched \in BOOLEAN :
          Respond(q, centroid, batched)
    \/ \E q \in requests : RequestFail(q)

SpecPage == InitPage /\ [][NextPage]_vars

\* -------------------------------------------------------- pointer vector
\* Where the pages put the map container in the window, <<left, top>>:
\* MainPage.tsx lines 92-93 (padding 12, paddingLeft 360) and MapPage.tsx
\* line 479 (padding 12).
Layouts == {<<360, 12>>, <<12, 12>>}

\* The container fills the window inside the page's padding.
BoxOfLayout(l, vp) ==
    [left |-> l[1], top |-> l[2],
     width |-> vp[1] - l[1] - 12, height |-> vp[2] - l[2] - 12]

\* Line 440: pointer.x, in thousandths.
PointerX(clientX, box) == (2000 * clientX) \div box.width - 1000

\* Line 441: pointer.y, in thousandths.
PointerY(clientY, box) == 1000 - (2000 * clientY) \div box.height

\* Lines 438-441 for a mousemove over the container, i / PointerGrid of
\* its width from its left edge and j / PointerGrid of its height from its
\* top edge; clientX and clientY are window coordinates.
SetPointer(i, j) ==
    LET clientX == ndc.box.left + (i * ndc.box.width) \div PointerGrid
        clientY == ndc.box.top + (j * ndc.box.height) \div PointerGrid
    IN ndc' = [ndc EXCEPT !.clientX = clientX, !.clientY = clientY,
                          !.x = PointerX(clientX, ndc.box),
                          !.y = PointerY(clientY, ndc.box)]
    /\ UNCHANGED <<mapVars, viewVars, loadVars, flyVars, spotVars, shade,
                   pageVars>>

\* A map mounted by one of the pages in a window of one of the sizes; the
\* pointer vector is (0, 0) (line 435).
InitPointer ==
    /\ InitMap
    /\ FlyIdle
    /\ SpotIdle
    /\ ShadeIdle
    /\ PageIdle
    /\ \E l \in Layouts, vp \in Viewports :
          ndc = [box |-> BoxOfLayout(l, vp), clientX |-> 0, clientY |-> 0,
                 x |-> 0, y |-> 0]

NextPointer == \E i \in 0..PointerGrid, j \in 0..PointerGrid : SetPointer(i, j)

SpecPointer == InitPointer /\ [][NextPointer]_vars

\* ------------------------------------------------------------------- Next
\* The component, its pages and the pointer.
MapNext ==
    \/ \E g \in GeoIds, withData \in BOOLEAN : Mount(g, withData)
    \/ Unmount
    \/ \E g \in GeoIds : GeoChange(g)
    \/ \E s \in Selections : TimeChange(s)
    \/ TimerFire
    \/ \E p \in Positions : onMouseMoveEvent(p)
    \/ onDblclickEvent
    \/ \E b \in 1..nBuilds : animate(b)

\* With the configuration panel; the container keeps its size and the model
\* loads stay pending.
Next ==
    \/ MapNext
    \/ \E value \in GuiColors : GuiMapColor(value)
    \/ \E value \in GuiColors : GuiHoverColor(value)

Spec == Init /\ [][Next]_vars

\* With a window that is resized.
NextView ==
    \/ MapNext
    \/ \E vp \in Viewports : onResizeEvent(vp)

SpecView == Init /\ [][NextView]_vars

\* With model loads that complete or fail.
NextLoad ==
    \/ MapNext
    \/ \E l \in loading : LoadDone(l)
    \/ \E l \in loading : LoadFail(l)

SpecLoad == Init /\ [][NextLoad]_vars

\* A time change made after every earlier delayed recolor has run left the
\* mounted map rebuilt for selection s, its own recolor pending (builds
\* counted from this one).
InitRecolor ==
    /\ \E s \in Selections :
          /\ props = [inst |-> 1, geo |-> 1, sel |-> s, data |-> TRUE]
          /\ timers = <<[inst |-> 1, sel |-> s, data |-> TRUE]>>
          /\ ev = [Plain("time") EXCEPT !.sel = s, !.data = TRUE]
    /\ nBuilds = 1
    /\ mounted = TRUE
    /\ meshColor = [r \in Regions |-> "#06092A"]
    /\ meshOpacity = [r \in Regions |-> MapOpacity]
    /\ priceColor = NoTable
    /\ pointer = CenterPos(1)
    /\ ray = CenterPos(1)
    /\ lastPick = NoPick
    /\ loops = {1}
    /\ resizeL = {1}
    /\ moveL = {1}
    /\ dblL = {1}
    /\ mapColor = "#06092A"
    /\ hoverColor = "#409EFF"
    /\ mouse = 0
    /\ tipVisible = FALSE
    /\ tipText = <<>>
    /\ viewport = <<800, 600>>
    /\ mapScale = getDynamicMapScale(1, <<800, 600>>)
    /\ cameraAspect = Aspect(<<800, 600>>)
    /\ rendererSize = <<800, 600>>
    /\ loading = {<<1, Anchors(1)>>}
    /\ models = 0
    /\ FlyIdle
    /\ SpotIdle
    /\ ShadeIdle
    /\ PageIdle
    /\ PointerIdle

\* The time axis in use: the selection a build captured need not be the
\* default one.
SpecRecolor == InitRecolor /\ [][MapNext]_vars


\* ================================================================ claims
\* The region a pointer-move at the pointer's position should pick.
PickAt(pos) == IF Under(pos) # 0 THEN <<cur, Under(pos)>> ELSE NoPick

\* A pointer-move has just ended the hover of a mesh of the mounted map.
HoverEnded ==
    /\ ev.op = "move"
    /\ ev.prev # NoPick
    /\ ev.prev[1] = cur
    /\ ev.prev # lastPick

\* A delayed recolor has just run on the mounted map.
PassOnMap == ev.op = "timer" /\ ev.map # 0 /\ ev.map = cur

\* C1: when a pointer-move ends the hover of a region, the region's top face
\* has the colour the latest recolor pass recorded for it (the configured
\* base colour if none did) and the configured map opacity, also when the
\* pass ran while the region was hovered.
C1_HoverEndRestoresLatestColor ==
    HoverEnded =>
        /\ meshColor[ev.prev[2]] =
              (IF priceColor[ev.prev[2]] # NoColor
               THEN priceColor[ev.prev[2]] ELSE mapColor)
        /\ meshOpacity[ev.prev[2]] = MapOpacity

\* A hover ended on a mesh that a pass had recoloured while it was hovered.
C1_Witness ==
    /\ HoverEnded
    /\ priceColor[ev.prev[2]] \notin {NoColor, mapColor}
    /\ ev.shown = priceColor[ev.prev[2]]
    /\ meshColor[ev.prev[2]] = priceColor[ev.prev[2]]

\* C2: after every pointer-move the recorded pick is the top face under the
\* position that event carried, or none if that position is over no top face.
C2_PickFollowsEventPosition ==
    ev.op = "move" => lastPick = PickAt(mouse)

\* C3: after every pointer-move at most one top face of the mounted map has
\* the hover colour at full opacity, it is the recorded pick, and a
\* previously hovered mesh that is no longer the pick is back at map opacity.
C3_AtMostOneHovered ==
    ev.op = "move" =>
        /\ \A r \in Regions :
              (meshColor[r] = hoverColor /\ meshOpacity[r] = FullOpacity)
                  => lastPick = <<cur, r>>
        /\ HoverEnded => meshOpacity[ev.prev[2]] = MapOpacity

\* The hover moved from one region of the mounted map to another.
C3_Witness ==
    /\ HoverEnded
    /\ lastPick # NoPick
    /\ meshColor[lastPick[2]] = hoverColor
    /\ meshOpacity[lastPick[2]] = FullOpacity

\* C4: a double-click emits exactly one drill-down event, for the region
\* under the pointer, and none when the pointer is over no region.
C4_DblclickEmitsRegionUnderPointer ==
    ev.op = "dblclick" =>
        ev.out = (IF Under(mouse) # 0 THEN <<[adcode |-> Under(mouse)]>>
                  ELSE <<>>)

\* C5: a change of the time selection builds no new map, registers no
\* listener and starts no render loop.
C5_TimeChangeOnlyRecolors ==
    [][(\E s \in Selections : TimeChange(s))
          => UNCHANGED <<nBuilds, loops, resizeL, moveL, dblL>>]_vars

\* C6: at most one render loop is being rescheduled per mounted map.
C6_OneLoopPerMountedMap ==
    Cardinality(loops) <= (IF mounted THEN 1 ELSE 0)

\* C7: of each kind of window handler exactly one is registered while a map
\* is mounted, the mounted build's, and none otherwise.
C7_HandlersMatchLiveInstance ==
    /\ resizeL = (IF mounted THEN {cur} ELSE {})
    /\ moveL = (IF mounted THEN {cur} ELSE {})
    /\ dblL = (IF mounted THEN {cur} ELSE {})

\* A map has been replaced and its successor is mounted.
C7_Witness ==
    /\ mounted
    /\ nBuilds >= 2
    /\ ev.op \in {"geo", "time"}
    /\ moveL = {nBuilds}

\* C8 as stated: with only year averages for the selected year (A: 100,
\* B: 300), a discrete-mode pass gives A the lowest and B the highest bucket.
C8_YearAverageBucketsInDiscreteMode ==
    (PassOnMap /\ ev.data /\ ev.sel.year = "2020" /\ ~ev.sel.heat)
        => (meshColor[1] = Bucket1 /\ meshColor[2] = Bucket4)

\* C8 amended: after a discrete-mode pass that found month values with
\* min < max, every region with the minimum month value has the lowest
\* bucket and every region with the maximum the highest; for the month
\* values A: 100, B: 300 these are A and B.
C8_MonthValueBucketsInDiscreteMode ==
    (PassOnMap /\ ~ev.sel.heat /\ PassRuns(ev.sel, ev.data, TRUE)) =>
        LET prices == PassPrices(ev.sel, ev.data)
        IN /\ SetMin(prices) < SetMax(prices) =>
                \A r \in Regions :
                   /\ getPriceByTime(ev.data, r, ev.sel.year, ev.sel.month)
                         = SetMin(prices) => meshColor[r] = Bucket1
                   /\ getPriceByTime(ev.data, r, ev.sel.year, ev.sel.month)
                         = SetMax(prices) => meshColor[r] = Bucket4
           /\ (ev.sel.year = "2021" /\ ev.sel.month = "02") =>
                (meshColor[1] = Bucket1 /\ meshColor[2] = Bucket4)

\* A discrete-mode pass ran on month values 100 and 300.
C8_Witness ==
    /\ PassOnMap
    /\ ev.sel = [year |-> "2021", month |-> "02", heat |-> FALSE]
    /\ meshColor[1] = Bucket1
    /\ meshColor[2] = Bucket4

\* C9: when no region has a value for the selection of a pass, the pass
\* leaves every top face with the no-data colour.
C9_EmptySelectionPaintsNoData ==
    (PassOnMap /\ ev.data /\ PassPrices(ev.sel, ev.data) = {})
        => \A r \in Regions : meshColor[r] = NoDataColor

\* The price ranges tried for the colour functions.
SampleBounds == {0, 100, 200, 300}

\* C10: both colour functions give null the no-data colour for every range,
\* and after a pass that found a value every region without one has the
\* no-data colour while every region with one has a colour of the mode.
C10_NullValueIsNoData ==
    /\ \A mn \in SampleBounds, mx \in SampleBounds :
          /\ getPriceColor(NULL, mx, mn) = NoDataColor
          /\ getHeatmapColor(NULL, mx, mn) = NoDataColor
    /\ (PassOnMap /\ PassPrices(ev.sel, ev.data) # {}) =>
          \A r \in Regions :
             IF PriceOf(ev.sel, ev.data, r) = NULL
             THEN meshColor[r] = NoDataColor /\ priceColor[r] = NoDataColor
             ELSE /\ meshColor[r] = priceColor[r]
                  /\ priceColor[r] \notin {NoColor, NoDataColor}
                  /\ ev.sel.heat \/ priceColor[r] \in
                                      {Bucket1, Bucket2, Bucket3, Bucket4}

\* A pass coloured one region and gave the other, without value, no-data.
C10_Witness ==
    /\ PassOnMap
    /\ \E r \in Regions : PriceOf(ev.sel, ev.data, r) = NULL
                          /\ meshColor[r] = NoDataColor
    /\ \E r \in Regions : PriceOf(ev.sel, ev.data, r) # NULL
                          /\ meshColor[r] \notin {NoDataColor, mapColor}

\* The value a pass with selection s reads for region r: the year average
\* in heatmap mode, the month value otherwise.
PassValue(s, d, r) ==
    IF s.heat THEN getYearAveragePrice(d, r, s.year)
    ELSE getPriceByTime(d, r, s.year, s.month)

C12_ResizeRecomputesScale ==
    (ev.op = "resize" /\ mounted) =>
        mapScale = getDynamicMapScale(props.geo, viewport)

\* C13: a resize event leaves the builds, the render loops, the listeners,
\* every region's colour and opacity, the recorded pick, the models and the
\* tooltip as they were, and gives the mounted build's camera the aspect
\* width / height and its renderers the size of the container.
C13_ResizeOnlyResizes ==
    [][(\E vp \in Viewports : onResizeEvent(vp)) =>
          /\ UNCHANGED <<nBuilds, mounted, props, meshColor, meshOpacity,
                         priceColor, lastPick, tipVisible, tipText, loops,
                         timers, resizeL, moveL, dblL, models, pointer, ray>>
          /\ mounted =>
                /\ cameraAspect' = (viewport'[1] * 1000) \div viewport'[2]
                /\ rendererSize' = viewport']_vars

\* A resize reached a mounted, recoloured map while a region was hovered
\* and the tooltip shown.
C13_Witness ==
    /\ ev.op = "resize"
    /\ mounted
    /\ lastPick # NoPick
    /\ lastPick[1] = cur
    /\ tipVisible
    /\ \E r \in Regions : priceColor[r] \notin {NoColor, NoDataColor}
    /\ rendererSize = viewport
    /\ viewport = <<1600, 300>>

\* C14: a frame of the mounted build, whose pointer vector holds the
\* pointer's position, leaves as hovered region the one under that position
\* and shows the tooltip exactly when there is one.
C14_FrameFollowsPointer ==
    [][(mounted /\ animate(cur) /\ pointer = mouse) =>
          /\ lastPick' = PickAt(pointer)
          /\ tipVisible' = (Under(pointer) # 0)]_vars

\* C15: after every pointer-move the tooltip is visible exactly when a
\* region is hovered; its text is then that region's name and the region's
\* value for the mounted build's selection with two decimals (the year
\* average, marked as such, in heatmap mode, the month value otherwise), or
\* the no-data text when that value is null.
C15_TooltipMatchesHover ==
    ev.op = "move" =>
        /\ tipVisible <=> lastPick # NoPick
        /\ tipVisible =>
              LET r == lastPick[2]
                  value == IF props.sel.heat
                           THEN getYearAveragePrice(props.data, r,
                                                    props.sel.year)
                           ELSE getPriceByTime(props.data, r, props.sel.year,
                                               props.sel.month)
              IN /\ lastPick[1] = cur
                 /\ meshColor[r] = hoverColor
                 /\ meshOpacity[r] = FullOpacity
                 /\ tipText[1] = r
                 /\ tipText[2] =
                       (IF value = NULL THEN "no data"
                        ELSE IF props.sel.heat
                        THEN ToString(value) \o ".00 (" \o props.sel.year
                                             \o " average)"
                        ELSE ToString(value) \o ".00")

\* A pointer-move in heatmap mode showed a region's year average.
C15_Witness ==
    /\ ev.op = "move"
    /\ tipVisible
    /\ props.sel.heat
    /\ tipText = <<2, "300.00 (2020 average)">>

\* C16: one pointer-move casts one ray and changes no top face other than
\* the previous pick and the new one; delivered again right after itself,
\* at the same position, it changes no colour, no opacity, neither the pick
\* nor the tooltip.
C16_MoveIsBoundedAndIdempotent ==
    [][(ev'.op = "move" /\ \E p \in Positions : onMouseMoveEvent(p)) =>
          /\ ev'.casts = 1
          /\ \A r \in Regions :
                (meshColor'[r] # meshColor[r]
                   \/ meshOpacity'[r] # meshOpacity[r])
                    => (lastPick = <<cur, r>> \/ lastPick' = <<cur, r>>)
          /\ (ev.op = "move" /\ mouse' = mouse) =>
                UNCHANGED <<meshColor, meshOpacity, priceColor, lastPick,
                            tipVisible, tipText, pointer, ray>>]_vars

\* A pointer-move found its pick already hovered and showing the hover
\* colour, as a repeated event does.
C16_Witness ==
    /\ ev.op = "move"
    /\ lastPick # NoPick
    /\ ev.prev = lastPick
    /\ ev.shown = hoverColor
    /\ pointer = mouse
    /\ meshColor[lastPick[2]] = hoverColor

\* C17: a model load that completes for a build that is no longer the
\* mounted one adds no model and no mixer.
C17_LateLoadIsNoOp ==
    (ev.op = "loaded" /\ ev.map = 0) => ev.added = 0

\* C18: the mounted map has no model while its load is pending, one per
\* label anchor once the load has completed and none when it has failed;
\* its model count changes only when its own load completes or the map is
\* built or unmounted; throughout, its render loop runs and its pointer
\* handlers are registered.
C18_ModelsFollowLoad ==
    /\ [](mounted =>
            /\ (\E l \in loading : l[1] = cur) => models = 0
            /\ (ev.op = "loaded" /\ ev.map = cur)
                  => models = Anchors(props.geo)
            /\ (ev.op = "loadfail" /\ ev.map = cur) => models = 0
            /\ models \in {0, Anchors(props.geo)}
            /\ cur \in loops
            /\ cur \in moveL
            /\ cur \in dblL)
    /\ [][models' # models =>
            \/ nBuilds' # nBuilds
            \/ ~mounted'
            \/ ev'.op = "loaded" /\ ev'.map = cur]_vars

\* The mounted map's load completed and a later pointer-move hovered a
\* region of the map, models in place.
C18_Witness ==
    /\ mounted
    /\ models = Anchors(props.geo)
    /\ models > 0
    /\ ev.op = "move"
    /\ lastPick # NoPick
    /\ lastPick[1] = cur

\* C19: every flight path pushed so far has its start index in the first
\* half [0, floor(n/2)) of the n label anchors and its end index in the
\* second half [floor(n/2), n), so that the two differ.
C19_EndpointsInDistinctHalves ==
    \A i \in DOMAIN connectLine :
        LET midIndex == anchors \div 2
        IN /\ connectLine[i].indexStart \in 0..(midIndex - 1)
           /\ connectLine[i].indexEnd \in midIndex..(anchors - 1)
           /\ connectLine[i].indexStart # connectLine[i].indexEnd

\* C20: a marker's scale stays between 1 and 2 and its opacity is 2 minus
\* its scale (in hundredths).
C20_SpotScaleWithinRange ==
    /\ spotScale \in 100..200
    /\ spotOpacity = 200 - spotScale

\* ---------------------------------------------------------------- C21..C30
DiscretePalette == {Bucket1, Bucket2, Bucket3, Bucket4}

BucketIndex(c) ==
    CASE c = Bucket1 -> 1
      [] c = Bucket2 -> 2
      [] c = Bucket3 -> 3
      [] c = Bucket4 -> 4
      [] OTHER -> 0

\* C21: in discrete mode a non-null value of a range min < max is bucketed
\* by r = (value - min) / (max - min): r < 0.25 gives #132354, 0.25 <= r <
\* 0.5 gives #0B388A, 0.5 <= r < 0.75 gives #1E6BF8 and r >= 0.75 gives
\* #42A0F9; the bucket index never falls as the value rises; and nothing
\* but these four colours and the no-data colour is ever produced.
C21_DiscreteBuckets ==
    LET n == shade.now.price - shade.min
        d == shade.max - shade.min
        c == shade.now.discrete
    IN /\ c # NoColor => c \in DiscretePalette \cup {NoDataColor}
       /\ (c # NoColor /\ shade.now.price # NULL /\ d > 0) =>
            /\ (4 * n < d) => c = Bucket1
            /\ (d <= 4 * n /\ 2 * n < d) => c = Bucket2
            /\ (d <= 2 * n /\ 4 * n < 3 * d) => c = Bucket3
            /\ (3 * d <= 4 * n) => c = Bucket4
       /\ (/\ shade.last.price # NULL
           /\ shade.now.price # NULL
           /\ d > 0
           /\ shade.last.price <= shade.now.price) =>
            BucketIndex(shade.last.discrete) <= BucketIndex(c)

\* A value exactly a quarter into its range was bucketed after the
\* range's minimum.
C21_Witness ==
    /\ shade.min < shade.max
    /\ shade.now.price # NULL
    /\ 4 * (shade.now.price - shade.min) = shade.max - shade.min
    /\ shade.now.discrete = Bucket2
    /\ shade.last.price = shade.min
    /\ shade.last.discrete = Bucket1

\* C22: in heatmap mode, over a range min < max, the hue is 240 degrees at
\* the minimum and 0 degrees at the maximum, linear in the normalized
\* position (to the degree) and strictly decreasing as the value rises;
\* saturation runs from 0.8 to 1.0 and lightness from 0.35 to 0.55, neither
\* ever falling as the value rises.
C22_HeatmapRamp ==
    LET n == shade.now.price - shade.min
        d == shade.max - shade.min
        hsl == shade.now.hsl
        old == shade.last.hsl
    IN (hsl # <<>>) =>
         /\ (n = 0) => hsl = <<240, 800, 350>>
         /\ (n = d) => hsl = <<0, 1000, 550>>
         /\ d * (hsl[1] - 1) < 240 * (d - n)
         /\ 240 * (d - n) < d * (hsl[1] + 1)
         /\ hsl[2] \in 800..1000
         /\ hsl[3] \in 350..550
         /\ (old # <<>> /\ shade.last.price < shade.now.price) =>
              /\ hsl[1] < old[1]
              /\ hsl[2] >= old[2]
              /\ hsl[3] >= old[3]

\* The maximum of a range was coloured after a value strictly inside it.
C22_Witness ==
    /\ shade.min < shade.last.price
    /\ shade.last.price < shade.now.price
    /\ shade.now.price = shade.max
    /\ shade.now.hsl = <<0, 1000, 550>>
    /\ shade.last.hsl # <<>>
    /\ shade.last.hsl[1] \in 1..239

\* The colour a region of the mounted map has once the latest selection has
\* been applied: that of a pass, or the base colour the build gave it when
\* the pass returns early.
SettledColor(r) ==
    IF PassRuns(props.sel, props.data, TRUE)
    THEN PassColor(props.sel, props.data, r)
    ELSE mapColor

\* C23: once every pending delayed recolor has run, every region of the
\* mounted map that is not hovered shows the colour of the latest selection,
\* or the untouched base colour when that selection has no data.
C23_SettledColorsAreLatest ==
    (mounted /\ timers = <<>>) =>
        \A r \in Regions :
            lastPick # <<cur, r>> => meshColor[r] = SettledColor(r)

\* C24: GeoJSON requests overlap freely, and a response that arrives for an
\* earlier adcode never overwrites the data of the newer navigation: while
\* the route stays the same, a geoJson or projection parameters that are
\* those of the route's adcode stay so, so that they are the route's once
\* every request has completed.
C24_LateResponseKeepsNewerData ==
    [][(mapAdCode' = mapAdCode) =>
          /\ (geoJson = mapAdCode) => (geoJson' = mapAdCode)
          /\ (projectionFnParam = mapAdCode) =>
                (projectionFnParam' = mapAdCode)]_vars

\* C25: the displayed map was built with the projection parameters derived
\* from the response that gave its features.
C25_MapBuiltWithOwnProjection ==
    (built.geo # 0) => (built.proj = built.geo)

\* C26: every top-face mesh of the mounted map that is not hovered and has
\* a recorded metric colour displays exactly that colour, also after the
\* base colour was changed in the configuration panel.
C26_RecordedColorIsDisplayed ==
    mounted =>
        \A r \in Regions :
            (lastPick # <<cur, r>> /\ priceColor[r] # NoColor)
                => meshColor[r] = priceColor[r]

\* C27: a build whose GeoJSON yields fewer than two label anchors does not
\* throw: every flight-path endpoint that is dereferenced is an index of
\* the anchor list, and the render loop and the listeners are set up.
C27_FewAnchorsBuildCompletes ==
    (anchors < 2 /\ stage # "lines") =>
        /\ stage = "running"
        /\ \A i \in DOMAIN connectLine :
              /\ connectLine[i].indexStart \in 0..(anchors - 1)
              /\ connectLine[i].indexEnd \in 0..(anchors - 1)

\* C28: a pass whose valued regions all share one value (min = max) still
\* gives each of them a well-defined colour of the active mode, a bucket
\* colour in discrete mode and a colour of the hue ramp in heatmap mode,
\* not the outcome of a division by the zero range.
C28_EqualRangeIsColoured ==
    (PassOnMap /\ ev.range # <<>> /\ ev.range[1] = ev.range[2]) =>
        \A r \in Regions :
            PriceOf(ev.sel, ev.data, r) # NULL =>
                IF ev.sel.heat
                THEN meshColor[r] \notin {NaNColor, NoDataColor, NoColor}
                ELSE meshColor[r] \in DiscretePalette

\* C29: lastPick does not outlive its map: while a map is mounted, lastPick
\* is empty or refers to a mesh of that map, so that no handler writes to a
\* mesh of a discarded map.
C29_LastPickIsOfMountedMap ==
    mounted => (lastPick = NoPick \/ lastPick[1] = cur)

\* C30: the pointer vector of a mousemove inside the map container is
\* relative to the container: x is -1 at its left edge and +1 at its right
\* edge, y is +1 at its top edge and -1 at its bottom edge, and both lie
\* within [-1, 1] for every position inside it (here in thousandths).
C30_PointerRelativeToContainer ==
    (ndc.clientX >= ndc.box.left /\ ndc.clientY >= ndc.box.top
        /\ ndc.box.width > 0) =>
        /\ (ndc.clientX = ndc.box.left) => ndc.x = 0 - 1000
        /\ (ndc.clientX = ndc.box.left + ndc.box.width) => ndc.x = 1000
        /\ (ndc.clientY = ndc.box.top) => ndc.y = 1000
        /\ (ndc.clientY = ndc.box.top + ndc.box.height) => ndc.y = 0 - 1000
        /\ ndc.x \in (0 - 1000)..1000
        /\ ndc.y \in (0 - 1000)..1000

====
